---- MODULE Spec2Model ----
(***************************************************************************)
(* Model of rdplines.py: Ramer-Douglas-Peucker line simplification, its    *)
(* chunked thread-pool variants, the chunk planner and the epsilon         *)
(* estimator.                                                              *)
(*                                                                         *)
(* Points are pairs <<x, y>> of integers.  Distances are irrational in     *)
(* general, so every distance is carried as its square, a rational         *)
(* <<num, den>> with den > 0, and every comparison is made on squares by   *)
(* cross-multiplication: exact on the integer inputs drawn here.           *)
(***************************************************************************)
EXTENDS Integers, Sequences, FiniteSets, TLC

\* ---------------------------------------------------------------- bounds
MaxLen == 4
MaxCoord == 1
MaxEps == 1
MaxY == 1
MaxChunk == 3
MaxWorkers == 2
MaxFaults == 1

\* ------------------------------------------------------ program constants
\* 1 / time_interval, time_interval = 0.001
TimeIntervalInv == 1000
\* executor = ThreadPoolExecutor(2), the process-wide pool
GlobalPoolWidth == 2
\* executor = ThreadPoolExecutor(2) inside parallel_rdp_algorithm
LocalPoolWidth == 2
\* rdp_threadpool(points, epsilon, chunk_size, max_workers=4)
DefaultMaxWorkers == 4

VARIABLES
    call,           \* which entry point this behaviour exercises
    points,         \* the input polyline
    epsilon,        \* the epsilon handed to the reducers
    chunk_size,     \* the chunk_size argument (0 stands for None)
    max_workers,    \* the max_workers argument of rdp_threadpool
    overtaken,      \* history: some chunk task completed before an earlier chunk's
    classic_points, \* what classic_rdp returned
    eps_result,     \* what calculate_epsilon returned
    chunk,          \* what find_optimal_chunk_size returned
    pc,             \* the caller's position
    chunks,         \* the chunk list built by the caller
    futures,        \* state of each chunk task of the per-call pool
    inner,          \* state of each task submitted to the process-wide pool
    results,        \* the per-chunk results collected so far, in collection order
    output          \* the value returned to the caller

vars == <<call, points, epsilon, chunk_size, max_workers, overtaken, classic_points,
          eps_result, chunk, pc, chunks, futures, inner, results, output>>

\* --------------------------------------------------------------- helpers
Unset == [kind |-> "unset"]

RECURSIVE SumSeq(_)
SumSeq(s) == IF s = <<>> THEN 0 ELSE Head(s) + SumSeq(Tail(s))

RECURSIVE Flatten(_)
Flatten(ss) == IF ss = <<>> THEN <<>> ELSE Head(ss) \o Flatten(Tail(ss))

Abs(n) == IF n < 0 THEN -n ELSE n

Min(a, b) == IF a < b THEN a ELSE b

Last(s) == s[Len(s)]

\* t is obtained from s by deleting elements: greedy left-to-right matching
RECURSIVE IsSubseq(_, _)
IsSubseq(t, s) ==
    IF t = <<>> THEN TRUE
    ELSE IF s = <<>> THEN FALSE
    ELSE IF Head(t) = Head(s) THEN IsSubseq(Tail(t), Tail(s))
    ELSE IsSubseq(t, Tail(s))

\* an epsilon value: eps^2 = num / (den * scale^2) for kind "finite" (eps >= 0);
\* the scale is kept apart so that the products compared stay small
Eps(k) == [kind |-> "finite", num |-> k * k, den |-> 1, scale |-> 1]

EpsNaN == [kind |-> "nan", num |-> 0, den |-> 1, scale |-> 1]

\* --------------------------------------------------- rdp (library call)
\* squared distance of point p to the line through s and e, or to s when s = e
pldist(p, s, e) ==
    IF s = e
    THEN <<(p[1] - s[1]) * (p[1] - s[1]) + (p[2] - s[2]) * (p[2] - s[2]), 1>>
    ELSE LET cross == (e[1] - s[1]) * (s[2] - p[2]) - (e[2] - s[2]) * (s[1] - p[1])
         IN  <<cross * cross,
               (e[1] - s[1]) * (e[1] - s[1]) + (e[2] - s[2]) * (e[2] - s[2])>>

\* d > dmax on squared rationals
DistGreater(d, dmax) == d[1] * dmax[2] > dmax[1] * d[2]

\* dmax > epsilon; every comparison with nan is false.  On squares:
\* dmax[1] / dmax[2] > num / (den * scale^2), the integer left side compared
\* with the floor of the right side
ExceedsEpsilon(dmax, eps) ==
    CASE eps.kind = "finite" ->
             dmax[1] * eps.den > (eps.num * dmax[2]) \div (eps.scale * eps.scale)
      [] eps.kind = "nan" -> FALSE

\* the scan for the farthest interior point of M[s..e]: <<index, dmax>>, the
\* first maximum winning (the update is on the strict d > dmax).  The new
\* <<index, dmax>> is bound through a one-element set, which evaluates it once.
RECURSIVE FarthestFrom(_, _, _, _, _)
FarthestFrom(M, s, e, i, best) ==
    IF i >= e THEN best
    ELSE LET d == pldist(M[i], M[s], M[e])
         IN  CHOOSE r \in {FarthestFrom(M, s, e, i + 1, next) :
                           next \in {IF DistGreater(d, best[2]) THEN <<i, d>> ELSE best}} :
                 TRUE

\* the indices of M[s..e] that stay marked: the range is split at the farthest
\* interior point while its distance exceeds epsilon, else only s and e stay
RECURSIVE rdp_mask(_, _, _, _)
rdp_mask(M, s, e, eps) ==
    UNION {IF ExceedsEpsilon(far[2], eps)
           THEN rdp_mask(M, s, far[1], eps) \cup rdp_mask(M, far[1], e, eps)
           ELSE {s, e} :
           far \in {FarthestFrom(M, s, e, s + 1, <<s, <<0, 1>>>>)}}

\* the elements of M at the indices of keep, in order
RECURSIVE SelectIdx(_, _, _)
SelectIdx(M, keep, i) ==
    IF i > Len(M) THEN <<>>
    ELSE (IF i \in keep THEN <<M[i]>> ELSE <<>>) \o SelectIdx(M, keep, i + 1)

rdp(M, eps) ==
    IF Len(M) = 0 THEN <<>>
    ELSE SelectIdx(M, rdp_mask(M, 1, Len(M), eps), 1)

\* ------------------------------------------------------------ classic_rdp
classic_rdp_DropsFirst(pts, eps) == rdp(SubSeq(pts, 2, Len(pts)), eps)

classic_rdp_FixedEps(pts, eps) == rdp(pts, Eps(1))

classic_rdp(pts, eps) == rdp(pts, eps)

\* ------------------------------------------------ find_optimal_chunk_size
find_optimal_chunk_size(data) ==
    LET len_data == Len(data)
    IN  IF len_data <= 100 THEN 1
        ELSE IF len_data <= 1000 THEN 4
        ELSE IF len_data <= 5000 THEN 8
        ELSE IF len_data <= 30000 THEN 16
        ELSE 20

\* ------------------------------------------------------ calculate_epsilon
\* numerator of ui for the point p, chord (x1,y1)-(x2,y2)
UiNum(p, x1, y1, x2, y2) ==
    Abs((y2 - y1) * p[1] - (x2 - x1) * p[2] + x2 * y1 - y2 * x1)

\* The result on a two-column float array, whose elements divide by zero and
\* take roots of negatives without raising (inf, nan):
\*   "IndexError"  points[0] on an empty array
\*   "nan", "inf"  a non-finite value is returned
\*   "neg"         a finite value < 0 is returned
\*   "finite"      a finite value >= 0 is returned,
\*                 eps = total * 0.001 / (radicand ** 0.5 * dx)
calculate_epsilon(pts) ==
    IF Len(pts) = 0 THEN [kind |-> "IndexError", num |-> 0, den |-> 1, scale |-> 1]
    ELSE
    LET x1 == pts[1][1]
        y1 == pts[1][2]
        x2 == pts[Len(pts)][1]
        y2 == pts[Len(pts)][2]
        radicand == (y2 - y1) * 2 + (x2 - x1) * 2
        total == SumSeq([i \in 1..Len(pts) |-> UiNum(pts[i], x1, y1, x2, y2)])
        dx == x2 - x1
        sq == [kind |-> "finite", num |-> total * total,
               den |-> radicand * dx * dx, scale |-> TimeIntervalInv]
    IN  IF radicand <= 0 THEN EpsNaN
        ELSE IF dx = 0
             THEN IF total = 0 THEN EpsNaN
                  ELSE [kind |-> "inf", num |-> 0, den |-> 1, scale |-> 1]
        ELSE IF dx < 0 /\ total > 0 THEN [sq EXCEPT !.kind = "neg"]
        ELSE IF total = 0 THEN Eps(0)
        ELSE sq

\* ----------------------------------------------------------------- chunks
\* [points[i:i+chunk_size] for i in range(0, len(points), chunk_size)]
Chunks_Overlap(pts, size) ==
    [k \in 1..((Len(pts) + size - 1) \div size) |->
        SubSeq(pts, (k - 1) * size + 1, Min(k * size + 1, Len(pts)))]

Chunks(pts, size) ==
    [k \in 1..((Len(pts) + size - 1) \div size) |->
        SubSeq(pts, (k - 1) * size + 1, Min(k * size, Len(pts)))]

\* ----------------------------------------------------------------- inputs
Coord == 0..MaxCoord

Point == Coord \X Coord

RECURSIVE SeqsUpTo(_, _)
SeqsUpTo(S, n) ==
    IF n = 0 THEN {<<>>}
    ELSE LET shorter == SeqsUpTo(S, n - 1)
         IN  shorter \cup {Append(s, x) : s \in {t \in shorter : Len(t) = n - 1}, x \in S}

\* every polyline of at most MaxLen grid points
Polylines == SeqsUpTo(Point, MaxLen)

EpsArgs == {Eps(k) : k \in 0..MaxEps}

\* --------------------------------------------- direct calls (Spec)
\* One call of classic_rdp or of calculate_epsilon per behaviour, on any
\* polyline of the grid.
Init ==
    /\ call \in {"classic_rdp", "calculate_epsilon"}
    /\ points \in Polylines
    /\ epsilon \in (IF call = "classic_rdp" THEN EpsArgs ELSE {Eps(0)})
    /\ chunk_size = 1
    /\ max_workers = 1
    /\ overtaken = FALSE
    /\ classic_points = Unset
    /\ eps_result = Unset
    /\ chunk = 0
    /\ pc = "call"
    /\ chunks = <<>>
    /\ futures = <<>>
    /\ inner = <<>>
    /\ results = <<>>
    /\ output = Unset

CallClassicRdp ==
    /\ call = "classic_rdp"
    /\ pc = "call"
    /\ classic_points' = [kind |-> "ok", val |-> classic_rdp(points, epsilon)]
    /\ pc' = "returned"
    /\ UNCHANGED <<call, points, epsilon, chunk_size, max_workers, overtaken,
                   eps_result, chunk, chunks, futures, inner, results, output>>

CallCalculateEpsilon ==
    /\ call = "calculate_epsilon"
    /\ pc = "call"
    /\ eps_result' = calculate_epsilon(points)
    /\ pc' = IF eps_result'.kind = "IndexError" THEN "raised" ELSE "returned"
    /\ UNCHANGED <<call, points, epsilon, chunk_size, max_workers, overtaken,
                   classic_points, chunk, chunks, futures, inner, results, output>>

Next ==
    \/ CallClassicRdp
    \/ CallCalculateEpsilon

Spec == Init /\ [][Next]_vars

\* ------------------------------------------- main flow and rdp_threadpool
\* points = np.column_stack([range(len(first_row)), second_row])
IndexedPolylines ==
    UNION {{[i \in 1..n |-> <<i - 1, ys[i]>>] : ys \in [1..n -> 0..MaxY]} :
           n \in 0..MaxLen}

Queued == [state |-> "queued", val |-> <<>>]

CountIn(futs, states) == Cardinality({i \in DOMAIN futs : futs[i].state \in states})

\* task i completes while the task of an earlier chunk has not
Overtakes(futs, i) ==
    \E j \in 1..(i - 1) : futs[j].state \in {"queued", "running", "blocked"}

\* executor.map(classic_rdp, chunks, [epsilon]*len(chunks)): the call of task i
ChunkTask_IgnoresEpsilon(cs, i, eps) == classic_rdp(cs[i], Eps(0))

ChunkTask(cs, i, eps) == classic_rdp(cs[i], eps)

\* the future whose result the map iterator yields next: submission order
NextFuture_AsCompleted(res, futs) ==
    LET taken == {res[j].idx : j \in DOMAIN res}
        ready == {i \in DOMAIN futs : futs[i].state \in {"done", "failed"} /\ i \notin taken}
    IN  IF ready # {} THEN CHOOSE i \in ready : TRUE
        ELSE CHOOSE i \in DOMAIN futs : i \notin taken

NextFuture(res, futs) == Len(res) + 1

\* np.vstack(results)
vstack_Reversed(res) ==
    Flatten([k \in DOMAIN res |-> res[Len(res) + 1 - k].val])

vstack(res) == Flatten([k \in DOMAIN res |-> res[k].val])

PoolInit ==
    /\ points \in IndexedPolylines
    /\ \/ /\ call = "main"
          /\ epsilon = Unset
          /\ chunk_size = 0
          /\ max_workers = DefaultMaxWorkers
          /\ pc = "main"
       \/ /\ call = "rdp_threadpool"
          /\ epsilon \in EpsArgs
          /\ chunk_size \in 1..MaxChunk
          /\ max_workers \in 1..MaxWorkers
          /\ pc = "call"
    /\ overtaken = FALSE
    /\ classic_points = Unset
    /\ eps_result = Unset
    /\ chunk = 0
    /\ chunks = <<>>
    /\ futures = <<>>
    /\ inner = <<>>
    /\ results = <<>>
    /\ output = Unset

\* epsilon = calculate_epsilon(points)
MainCalculateEpsilon ==
    /\ call = "main"
    /\ pc = "main"
    /\ eps_result' = calculate_epsilon(points)
    /\ IF eps_result'.kind = "IndexError"
       THEN pc' = "raised" /\ UNCHANGED epsilon
       ELSE pc' = "plan" /\ epsilon' = eps_result'
    /\ UNCHANGED <<call, points, chunk_size, max_workers, overtaken, classic_points,
                   chunk, chunks, futures, inner, results, output>>

\* chunk = find_optimal_chunk_size(points)
MainFindChunk ==
    /\ call = "main"
    /\ pc = "plan"
    /\ chunk' = find_optimal_chunk_size(points)
    /\ pc' = "classic"
    /\ UNCHANGED <<call, points, epsilon, chunk_size, max_workers, overtaken,
                   classic_points, eps_result, chunks, futures, inner, results, output>>

\* classic_points = classic_rdp(points, epsilon), then the call
\* rdp_threadpool(points, epsilon, chunk) binds chunk_size to chunk
MainClassic ==
    /\ call = "main"
    /\ pc = "classic"
    /\ classic_points' = [kind |-> "ok", val |-> classic_rdp(points, epsilon)]
    /\ chunk_size' = chunk
    /\ pc' = "call"
    /\ UNCHANGED <<call, points, epsilon, max_workers, overtaken, eps_result,
                   chunk, chunks, futures, inner, results, output>>

\* the chunk list is cut and map() submits one task per chunk, in chunk order
Submit ==
    /\ call \in {"main", "rdp_threadpool"}
    /\ pc = "call"
    /\ chunks' = Chunks(points, chunk_size)
    /\ futures' = [k \in DOMAIN chunks' |-> Queued]
    /\ pc' = "collect"
    /\ UNCHANGED <<call, points, epsilon, chunk_size, max_workers, overtaken,
                   classic_points, eps_result, chunk, inner, results, output>>

\* an idle worker takes the oldest queued work item
StartTask(i) ==
    /\ call \in {"main", "rdp_threadpool"}
    /\ futures[i].state = "queued"
    /\ \A j \in 1..(i - 1) : futures[j].state # "queued"
    /\ CountIn(futures, {"running"}) < max_workers
    /\ futures' = [futures EXCEPT ![i].state = "running"]
    /\ UNCHANGED <<call, points, epsilon, chunk_size, max_workers, overtaken,
                   classic_points, eps_result, chunk, pc, chunks, inner, results, output>>

\* the task's call of classic_rdp returns
FinishTask(i) ==
    /\ call \in {"main", "rdp_threadpool"}
    /\ futures[i].state = "running"
    /\ futures' = [futures EXCEPT ![i] =
                      [state |-> "done", val |-> ChunkTask(chunks, i, epsilon)]]
    /\ overtaken' = (overtaken \/ Overtakes(futures, i))
    /\ UNCHANGED <<call, points, epsilon, chunk_size, max_workers,
                   classic_points, eps_result, chunk, pc, chunks, inner, results, output>>

\* the task's call of classic_rdp raises
FailTask(i) ==
    /\ call \in {"main", "rdp_threadpool"}
    /\ futures[i].state = "running"
    /\ CountIn(futures, {"failed"}) < MaxFaults
    /\ futures' = [futures EXCEPT ![i].state = "failed"]
    /\ overtaken' = (overtaken \/ Overtakes(futures, i))
    /\ UNCHANGED <<call, points, epsilon, chunk_size, max_workers,
                   classic_points, eps_result, chunk, pc, chunks, inner, results, output>>

\* list(executor.map(...)): the iterator waits for the next future; a result is
\* appended, an exception cancels the futures not yet started and leaves the loop
Collect_SkipFailed ==
    /\ pc = "collect"
    /\ Len(results) < Len(futures)
    /\ LET k == NextFuture(results, futures)
       IN  /\ futures[k].state \in {"done", "failed"}
           /\ results' = Append(results, [idx |-> k, val |-> futures[k].val])
           /\ UNCHANGED <<pc, futures>>
    /\ UNCHANGED <<call, points, epsilon, chunk_size, max_workers, overtaken,
                   classic_points, eps_result, chunk, chunks, inner, output>>

Collect ==
    /\ pc = "collect"
    /\ Len(results) < Len(futures)
    /\ LET k == NextFuture(results, futures)
       IN  \/ /\ futures[k].state = "done"
              /\ results' = Append(results, [idx |-> k, val |-> futures[k].val])
              /\ UNCHANGED <<pc, futures>>
           \/ /\ futures[k].state = "failed"
              /\ futures' = [i \in DOMAIN futures |->
                                IF futures[i].state = "queued"
                                THEN [futures[i] EXCEPT !.state = "cancelled"]
                                ELSE futures[i]]
              /\ pc' = "failing"
              /\ UNCHANGED results
    /\ UNCHANGED <<call, points, epsilon, chunk_size, max_workers, overtaken,
                   classic_points, eps_result, chunk, chunks, inner, output>>

\* every future has yielded its result: the iterator is exhausted
CollectDone ==
    /\ pc = "collect"
    /\ Len(results) = Len(futures)
    /\ pc' = "shutdown"
    /\ UNCHANGED <<call, points, epsilon, chunk_size, max_workers, overtaken,
                   classic_points, eps_result, chunk, chunks, futures, inner,
                   results, output>>

\* leaving the with block joins the workers; then the exception propagates, or
\* np.vstack(results) is returned (it raises ValueError on an empty list)
Shutdown ==
    /\ pc \in {"shutdown", "failing"}
    /\ CountIn(futures, {"queued", "running"}) = 0
    /\ IF pc = "failing" \/ results = <<>>
       THEN pc' = "raised" /\ UNCHANGED output
       ELSE pc' = "returned" /\ output' = [kind |-> "ok", val |-> vstack(results)]
    /\ UNCHANGED <<call, points, epsilon, chunk_size, max_workers, overtaken,
                   classic_points, eps_result, chunk, chunks, futures, inner, results>>

PoolNext ==
    \/ MainCalculateEpsilon
    \/ MainFindChunk
    \/ MainClassic
    \/ Submit
    \/ \E i \in DOMAIN futures : StartTask(i)
    \/ \E i \in DOMAIN futures : FinishTask(i)
    \/ \E i \in DOMAIN futures : FailTask(i)
    \/ Collect
    \/ CollectDone
    \/ Shutdown

PoolSpec == PoolInit /\ [][PoolNext]_vars

\* ------------------------------------------------- parallel_rdp_algorithm
\* data_chunks: chunk_size None (0 here) gives the single chunk [data]
AlgoChunks(data, size) == IF size # 0 THEN Chunks(data, size) ELSE <<data>>

NotSubmitted == [state |-> "none", val |-> <<>>, ticket |-> 0]

\* a worker of the process-wide pool is idle
InnerPoolFree_SamePool(futs, inn) ==
    CountIn(futs, {"running", "blocked"}) + CountIn(inn, {"running"}) < LocalPoolWidth

InnerPoolFree(futs, inn) == CountIn(inn, {"running"}) < GlobalPoolWidth

\* [point for sublist in results for point in sublist]
concat_results(res) == Flatten([k \in DOMAIN res |-> res[k].val])

\* the flat and the zigzag series of every length up to MaxLen
AlgoPolylines ==
    {[i \in 1..n |-> <<i - 1, (i * m) % 2>>] : n \in 0..MaxLen, m \in 0..1}

AlgoInit ==
    /\ call = "parallel_rdp_algorithm"
    /\ points \in AlgoPolylines
    /\ epsilon \in EpsArgs
    /\ chunk_size \in 0..MaxChunk
    /\ max_workers = LocalPoolWidth
    /\ pc = "call"
    /\ overtaken = FALSE
    /\ classic_points = Unset
    /\ eps_result = Unset
    /\ chunk = 0
    /\ chunks = <<>>
    /\ futures = <<>>
    /\ inner = <<>>
    /\ results = <<>>
    /\ output = Unset

\* the per-call pool is created, the chunks are cut and one parallel_rdp task
\* per chunk is submitted to it, in chunk order
AlgoSubmit ==
    /\ call = "parallel_rdp_algorithm"
    /\ pc = "call"
    /\ chunks' = AlgoChunks(points, chunk_size)
    /\ futures' = [k \in DOMAIN chunks' |-> Queued]
    /\ inner' = [k \in DOMAIN chunks' |-> NotSubmitted]
    /\ pc' = "collect"
    /\ UNCHANGED <<call, points, epsilon, chunk_size, max_workers, overtaken,
                   classic_points, eps_result, chunk, results, output>>

\* an idle worker of the per-call pool takes the oldest queued parallel_rdp task
AlgoStart(i) ==
    /\ call = "parallel_rdp_algorithm"
    /\ futures[i].state = "queued"
    /\ \A j \in 1..(i - 1) : futures[j].state # "queued"
    /\ CountIn(futures, {"running", "blocked"}) < max_workers
    /\ futures' = [futures EXCEPT ![i].state = "running"]
    /\ UNCHANGED <<call, points, epsilon, chunk_size, max_workers, overtaken,
                   classic_points, eps_result, chunk, pc, chunks, inner, results, output>>

\* parallel_rdp: future = executor.submit(classic_rdp, points, eps), then it
\* blocks in future.result()
AlgoSubmitInner(i) ==
    /\ call = "parallel_rdp_algorithm"
    /\ futures[i].state = "running"
    /\ inner' = [inner EXCEPT ![i] =
                    [state |-> "queued", val |-> <<>>,
                     ticket |-> 1 + CountIn(inner, {"queued", "running", "done", "failed"})]]
    /\ futures' = [futures EXCEPT ![i].state = "blocked"]
    /\ UNCHANGED <<call, points, epsilon, chunk_size, max_workers, overtaken,
                   classic_points, eps_result, chunk, pc, chunks, results, output>>

\* an idle worker of the process-wide pool takes its oldest queued task
InnerStart(i) ==
    /\ call = "parallel_rdp_algorithm"
    /\ inner[i].state = "queued"
    /\ \A j \in DOMAIN inner :
          inner[j].state = "queued" => inner[i].ticket <= inner[j].ticket
    /\ InnerPoolFree(futures, inner)
    /\ inner' = [inner EXCEPT ![i].state = "running"]
    /\ UNCHANGED <<call, points, epsilon, chunk_size, max_workers, overtaken,
                   classic_points, eps_result, chunk, pc, chunks, futures, results, output>>

\* classic_rdp returns in the process-wide pool
InnerFinish(i) ==
    /\ call = "parallel_rdp_algorithm"
    /\ inner[i].state = "running"
    /\ inner' = [inner EXCEPT ![i].state = "done",
                              ![i].val = ChunkTask(chunks, i, epsilon)]
    /\ UNCHANGED <<call, points, epsilon, chunk_size, max_workers, overtaken,
                   classic_points, eps_result, chunk, pc, chunks, futures, results, output>>

\* classic_rdp raises in the process-wide pool
InnerFail(i) ==
    /\ call = "parallel_rdp_algorithm"
    /\ inner[i].state = "running"
    /\ CountIn(inner, {"failed"}) < MaxFaults
    /\ inner' = [inner EXCEPT ![i].state = "failed"]
    /\ UNCHANGED <<call, points, epsilon, chunk_size, max_workers, overtaken,
                   classic_points, eps_result, chunk, pc, chunks, futures, results, output>>

\* future.result() returns or re-raises in parallel_rdp, which ends the same way
AlgoFinish(i) ==
    /\ call = "parallel_rdp_algorithm"
    /\ futures[i].state = "blocked"
    /\ inner[i].state \in {"done", "failed"}
    /\ futures' = [futures EXCEPT ![i] = [state |-> inner[i].state, val |-> inner[i].val]]
    /\ overtaken' = (overtaken \/ Overtakes(futures, i))
    /\ UNCHANGED <<call, points, epsilon, chunk_size, max_workers,
                   classic_points, eps_result, chunk, pc, chunks, inner, results, output>>

\* results = [future.result() for future in futures]: the next future in list
\* order is waited for; its exception leaves the function at once
AlgoCollect ==
    /\ call = "parallel_rdp_algorithm"
    /\ pc = "collect"
    /\ Len(results) < Len(futures)
    /\ LET k == NextFuture(results, futures)
       IN  \/ /\ futures[k].state = "done"
              /\ results' = Append(results, [idx |-> k, val |-> futures[k].val])
              /\ UNCHANGED pc
           \/ /\ futures[k].state = "failed"
              /\ pc' = "raised"
              /\ UNCHANGED results
    /\ UNCHANGED <<call, points, epsilon, chunk_size, max_workers, overtaken,
                   classic_points, eps_result, chunk, chunks, futures, inner, output>>

\* return [point for sublist in results for point in sublist]
AlgoReturn ==
    /\ call = "parallel_rdp_algorithm"
    /\ pc = "collect"
    /\ Len(results) = Len(futures)
    /\ output' = [kind |-> "ok", val |-> concat_results(results)]
    /\ pc' = "returned"
    /\ UNCHANGED <<call, points, epsilon, chunk_size, max_workers, overtaken,
                   classic_points, eps_result, chunk, chunks, futures, inner, results>>

AlgoNext ==
    \/ AlgoSubmit
    \/ \E i \in DOMAIN futures : AlgoStart(i)
    \/ \E i \in DOMAIN futures : AlgoSubmitInner(i)
    \/ \E i \in DOMAIN futures : InnerStart(i)
    \/ \E i \in DOMAIN futures : InnerFinish(i)
    \/ \E i \in DOMAIN futures : InnerFail(i)
    \/ \E i \in DOMAIN futures : AlgoFinish(i)
    \/ AlgoCollect
    \/ AlgoReturn

AlgoSpec == AlgoInit /\ [][AlgoNext]_vars

\* a thread that can take a step is eventually scheduled
FairAlgoSpec == AlgoSpec /\ WF_vars(AlgoNext)

\* ================================================================ claims
\* ---- checked under Spec (direct calls)

\* no interior point of pts lies on the line through an earlier and a later
\* point of pts (or coincides with them when they are the same point)
NoZeroTriple(pts) ==
    \A i, j, k \in DOMAIN pts :
        (i < j /\ j < k) => pldist(pts[j], pts[i], pts[k])[1] # 0

\* C1: for a polyline of length >= 2 and epsilon >= 0 the result of classic_rdp
\* is a subsequence of the input, starts with the first input point, ends with
\* the last input point and is no longer than the input.
C1_SimplifyIsSubsequence ==
    (call = "classic_rdp" /\ pc = "returned" /\ Len(points) >= 2) =>
        LET r == classic_points.val
        IN  /\ IsSubseq(r, points)
            /\ Len(r) >= 2
            /\ Len(r) <= Len(points)
            /\ r[1] = points[1]
            /\ Last(r) = Last(points)

C1_Witness ==
    /\ call = "classic_rdp"
    /\ pc = "returned"
    /\ epsilon = Eps(1)
    /\ Len(points) = 4
    /\ Len(classic_points.val) = 3

C7_EpsilonFiniteOrError ==
    (call = "calculate_epsilon" /\ pc # "call") =>
        /\ eps_result.kind \in {"finite", "IndexError"}
        /\ (Len(points) < 2 \/ points[1][1] = Last(points)[1]) => pc = "raised"

\* ---- checked under PoolSpec (main flow and rdp_threadpool)

Submitted == pc \in {"collect", "shutdown", "failing", "returned"}

\* the per-chunk results of the serial reducer, concatenated in chunk order
SerialAssembly ==
    LET cs == Chunks(points, chunk_size)
    IN  Flatten([k \in DOMAIN cs |-> classic_rdp(cs[k], epsilon)])

\* C2: whatever max_workers is and in whatever order the chunk tasks start and
\* complete, the sequence rdp_threadpool returns is the per-chunk results in
\* chunk index order: a function of points, epsilon and chunk_size alone.
C2_OutputIndependentOfSchedule ==
    pc = "returned" => output.val = SerialAssembly

C2_Witness ==
    /\ pc = "returned"
    /\ max_workers >= 2
    /\ Len(chunks) >= 2
    /\ overtaken
    /\ Len(output.val) < Len(points)

\* C3: the chunks partition the input: each is non-empty and at most chunk_size
\* long, all but the last are exactly chunk_size long, and their concatenation
\* in chunk order is the input.
C3_ChunksPartitionInput ==
    Submitted =>
        /\ Flatten(chunks) = points
        /\ \A k \in DOMAIN chunks :
              /\ Len(chunks[k]) >= 1
              /\ Len(chunks[k]) <= chunk_size
              /\ k < Len(chunks) => Len(chunks[k]) = chunk_size

C3_Witness ==
    /\ Submitted
    /\ chunk_size = 3
    /\ Len(chunks) = 2
    /\ Len(chunks[2]) = 1

\* C4: for a polyline of length >= 2, epsilon >= 0 and chunk_size >= 1 the
\* output of rdp_threadpool is a subsequence of the input (original order
\* kept), no longer than the input, and starts and ends with the first and the
\* last input point.
C4_ParallelKeepsOrderAndEnds ==
    (pc = "returned" /\ Len(points) >= 2 /\ epsilon.kind = "finite") =>
        LET r == output.val
        IN  /\ IsSubseq(r, points)
            /\ Len(r) >= 2
            /\ Len(r) <= Len(points)
            /\ r[1] = points[1]
            /\ Last(r) = Last(points)

C4_Witness ==
    /\ pc = "returned"
    /\ epsilon.kind = "finite"
    /\ Len(chunks) = 2
    /\ Len(points) = 4
    /\ Len(output.val) = 3

\* C5: when chunk_size >= len(points) (a polyline, so at least one point)
\* rdp_threadpool dispatches exactly one chunk task and returns what
\* classic_rdp returns on the same polyline and epsilon.
C5_SingleChunkEqualsSerial ==
    (Submitted /\ chunk_size >= Len(points) /\ Len(points) >= 1) =>
        /\ Len(futures) = 1
        /\ pc = "returned" => output.val = classic_rdp(points, epsilon)

C5_Witness ==
    /\ pc = "returned"
    /\ chunk_size >= Len(points)
    /\ Len(points) >= 3
    /\ epsilon = Eps(1)
    /\ Len(output.val) < Len(points)

\* C6: once a chunk task has raised, rdp_threadpool never returns a point
\* sequence: it does not reach "returned" and hands no output to the caller.
C6_FailureNeverReturnsPoints ==
    (\E i \in DOMAIN futures : futures[i].state = "failed") =>
        /\ pc # "returned"
        /\ output = Unset

C6_Witness ==
    /\ pc = "raised"
    /\ Len(results) >= 1
    /\ \E i \in DOMAIN futures : futures[i].state = "failed"
    /\ \E i \in DOMAIN futures : futures[i].state = "cancelled"

\* C8 (as claimed): in the main flow the number of chunk tasks dispatched
\* equals the value find_optimal_chunk_size returned, each chunk being
\* ceil(len(points) / chunk) long.
C8_PlannerValueIsChunkCount ==
    (call = "main" /\ Submitted) =>
        /\ Len(futures) = chunk
        /\ \A k \in 1..(Len(chunks) - 1) :
              Len(chunks[k]) = (Len(points) + chunk - 1) \div chunk

\* ---- checked under FairAlgoSpec (parallel_rdp_algorithm)

\* C10: parallel_rdp_algorithm always comes to an end (a return, or the
\* exception of a chunk task), with any number of chunks; and when it returns,
\* every chunk task has completed and the value returned is the per-chunk
\* results concatenated in chunk index order.
C10_AlgorithmTerminatesInOrder ==
    /\ <>(pc \in {"returned", "raised"})
    /\ [](pc = "returned" =>
            /\ \A i \in DOMAIN futures : futures[i].state = "done"
            /\ output.val =
                 LET cs == AlgoChunks(points, chunk_size)
                 IN  Flatten([k \in DOMAIN cs |-> classic_rdp(cs[k], epsilon)]))

C10_Witness ==
    /\ call = "parallel_rdp_algorithm"
    /\ pc = "returned"
    /\ Len(futures) > LocalPoolWidth
    /\ overtaken

====
